---- MODULE Spec2Model ----
(***************************************************************************)
(* Model of the per-device state machine of device.cpp: the three handler  *)
(* slots of DevicePrivate::state, the per-level single shot timers, the    *)
(* poll queue and the binding context, driven by events that reach         *)
(* Device::handleEvent and Device::timerEvent.                             *)
(*                                                                         *)
(* A handler is a pure operator from the device (a record w with the       *)
(* fields of DevicePrivate, the mailbox its signals are queued in and the  *)
(* requests it handed to the APS controller) and an event to the device    *)
(* after the handler returned.  The answers of the collaborators a handler *)
(* calls (the APS controller, DEV_GetPollItems) are its input record in.   *)
(* Time is counted in milliseconds.                                        *)
(***************************************************************************)
EXTENDS Integers, Sequences, FiniteSets, TLC

VARIABLES
    state,         \* DevicePrivate::state, the handler of each level
    timer,         \* DevicePrivate::timer, ms until expiry, Inactive if stopped
    awake,         \* DevicePrivate::awake, ms since start(), Invalid if never
    binding,       \* DevicePrivate::binding
    pollItems,     \* DevicePrivate::pollItems, back() is the last element
    zdpResult,     \* DevicePrivate::zdpResult
    readResult,    \* DevicePrivate::readResult
    node,          \* DevicePrivate::node is resolved
    items,         \* lastSet().isValid() of RAttrManufacturerName, RAttrModelId
    mailbox,       \* events emitted by eventNotify, not yet dispatched
    crashed,       \* the process ended (absent handler called, assertion)
    sent,          \* requests the last step handed to the APS controller
    deviceKey,     \* DevicePrivate::deviceKey as <<upper, lower>> 32 bit words
    coreNode,      \* what DEV_GetCoreNode(key) yields
    reachableItem, \* item(RStateReachable)->toBool()
    sleeper,       \* item(RAttrSleeper)->toBool()
    subItems,      \* a sub-device carries ManufacturerName / ModelId
    ddfMatch,      \* what the DDF engine answers for this device: 1 if one matches
    groups,        \* how many events of the mailbox each emitting step queued
    inGroup,       \* the events a step queued together are partly dispatched
    last,          \* kind of the last event each level's handler was called with
    recording,     \* the run keeps a history
    devices,       \* the DeviceContainer and what the last call on it returned
    dropped,       \* how many items pollItems.clear() removed in the last step
    history        \* level 0 handlers installed and DDF events, in order

vars == <<state, timer, awake, binding, pollItems, zdpResult, readResult, node,
          items, mailbox, crashed, sent, deviceKey, coreNode, reachableItem,
          sleeper, subItems, ddfMatch, groups, inGroup, last,
          recording, history, devices, dropped>>

----------------------------------------------------------------------------
(* Program constants *)

MinMacPollRxOn == 8000
MaxPollItemRetries == 3
BindingVerifyInterval == 300000
StateLevel0 == 0
STATE_LEVEL_BINDING == 1
STATE_LEVEL_POLL == 2
StateLevelMax == 3
ApsSuccessStatus == 0
ZdpSuccess == 0
ZdpNotSupported == 132
\* 0x00212E00, the upper word of the mask 0x00212E0000000000
DdeMacPrefix == 2174464

(* Bounds of the model *)

TimeStep == 4000
MaxReqId == 1
MaxPollItems == 2
MaxBindings == 1
MaxPending == 1
MaxWatch == 8000
MaxHistory == 8
\* Device objects constructed in a run
MaxDevices == 4

NULL == "null"
Inactive == -1
Invalid == -1

Levels == 0 .. (StateLevelMax - 1)

Min(a, b) == IF a < b THEN a ELSE b

----------------------------------------------------------------------------
(* Events *)

Ev(what, num) == [what |-> what, num |-> num]

\* an ApsConfirm carries the request id and the status in its number
ApsConfirmEvent(id, status) == Ev("ApsConfirm", id * 256 + status)
EventApsConfirmId(ev) == ev.num \div 256
EventApsConfirmStatus(ev) == ev.num % 256

\* status values an ApsConfirm is delivered with: success and no-ack (0xE9)
ApsStatuses == {ApsSuccessStatus, 233}

\* bitwise and of two naturals below 2^bits
RECURSIVE BitAnd(_, _, _)
BitAnd(a, b, bits) ==
    IF bits = 0 THEN 0
    ELSE (a % 2) * (b % 2) + 2 * BitAnd(a \div 2, b \div 2, bits - 1)

----------------------------------------------------------------------------
(* The device as the handlers see it *)

Cur ==
    [state |-> state, timer |-> timer, awake |-> awake, binding |-> binding,
     pollItems |-> pollItems, zdpResult |-> zdpResult, readResult |-> readResult,
     node |-> node, items |-> items, mailbox |-> mailbox, crashed |-> crashed,
     sent |-> <<>>, last |-> last, dropped |-> 0]

\* a default constructed ZDP_Result / DA_ReadResult
NoResult == [isEnqueued |-> FALSE, apsReqId |-> 0]

\* the answer of the APS controller to a request
ApsResult(in) == [isEnqueued |-> in.enq, apsReqId |-> in.reqId]

Crash(w) == [w EXCEPT !.crashed = TRUE]

\* emit q->eventNotify(event): queued by the connected enqueueEvent slot
eventNotify(w, ev) == [w EXCEPT !.mailbox = Append(@, ev)]

DEV_EnqueueEvent(w, what) == eventNotify(w, Ev(what, 0))

DEV_GetCoreNode == coreNode.exists

lastAwakeMs(w) == IF w.awake # Invalid THEN w.awake ELSE 8640000

\* reachable() for the node cn, the Reachable flag ri and the Sleeper flag sl
reachableWith(w, cn, ri, sl) ==
    IF lastAwakeMs(w) < MinMacPollRxOn THEN TRUE
    ELSE IF w.node /\ ~cn.ndNull /\ cn.rxOnWhenIdle THEN ri
    ELSE IF ~sl THEN ri
    ELSE FALSE

reachable(w) == reachableWith(w, coreNode, reachableItem, sleeper)

startStateTimer(w, IntervalMs, level) == [w EXCEPT !.timer[level] = IntervalMs]

\* a stopStateTimer that leaves the timer running
StopStateTimerKeepsRunning(w, level) == w

stopStateTimer(w, level) ==
    IF w.timer[level] # Inactive THEN [w EXCEPT !.timer[level] = Inactive] ELSE w

RECURSIVE CallHandler(_, _, _, _)
RECURSIVE handleEvent(_, _, _, _)

\* setState that does not compare the new handler with the installed one
setStateAlways(w, newState, level, in) ==
    LET w1 == IF w.state[level] # NULL
              THEN CallHandler(w, w.state[level], Ev("StateLeave", level), in)
              ELSE w
        w2 == [w1 EXCEPT !.state[level] = newState]
    IN  IF newState # NULL
        THEN eventNotify(w2, Ev("StateEnter", level))
        ELSE w2

setState(w, newState, level, in) ==
    IF w.state[level] # newState
    THEN LET w1 == IF w.state[level] # NULL
                   THEN CallHandler(w, w.state[level], Ev("StateLeave", level), in)
                   ELSE w
             w2 == [w1 EXCEPT !.state[level] = newState]
         IN  IF newState # NULL
             THEN eventNotify(w2, Ev("StateEnter", level))
             ELSE w2
    ELSE w

----------------------------------------------------------------------------
(* Level 0: Init and the verification states *)

IsDdeKey(key) == BitAnd(key[1], DdeMacPrefix, 32) = DdeMacPrefix

\* (key & 0xffffffff00000000) == 0
IsZgpKey(key) == key[1] = 0

InitTickEvents ==
    {"Poll", "Awake", "ConfigReachable", "StateReachable", "StateTimeout",
     "StateLastUpdated"}

DEV_InitStateHandler(w, ev, in) ==
    LET w1 == IF ev.what = "StateEnter"
              THEN [w EXCEPT !.zdpResult = NoResult]
              ELSE w
        w2 == IF ev.what = "StateEnter" /\ IsDdeKey(deviceKey)
              THEN [w1 EXCEPT !.node = DEV_GetCoreNode]
              ELSE w1
    IN  IF ev.what = "StateEnter" /\ IsDdeKey(deviceKey)
           /\ w2.node /\ coreNode.nwk = 0
        THEN setState(w2, "Dead", StateLevel0, in)
        ELSE IF ev.what \in InitTickEvents
        THEN LET w3 == IF ~w2.node
                       THEN [w2 EXCEPT !.node = DEV_GetCoreNode]
                       ELSE w2
             IN  IF w3.node
                 THEN IF ~coreNode.ndNull \/ reachable(w3)
                      THEN setState(w3, "NodeDescriptor", StateLevel0, in)
                      ELSE w3
                 ELSE IF IsZgpKey(deviceKey)
                      THEN setState(w3, "Dead", StateLevel0, in)
                      ELSE w3
        ELSE w2

\* the ZDP request without the state timer
ZdpRequestNoTimer(w, req, in) ==
    LET w1 == [w EXCEPT !.zdpResult = ApsResult(in), !.sent = Append(@, req)]
    IN  IF w1.zdpResult.isEnqueued
        THEN w1
        ELSE setState(w1, "Init", StateLevel0, in)

\* the ZDP request of a verification state, its timer or the way back to Init
ZdpRequest(w, req, in) ==
    LET w1 == [w EXCEPT !.zdpResult = ApsResult(in), !.sent = Append(@, req)]
    IN  IF w1.zdpResult.isEnqueued
        THEN startStateTimer(w1, MinMacPollRxOn, StateLevel0)
        ELSE setState(w1, "Init", StateLevel0, in)

\* the ZDP verification states without the StateTimeout branch
ZdpVerifyStateNoTimeout(w, ev, in, verified, next, req, response) ==
    IF ev.what = "StateEnter"
    THEN IF verified
         THEN setState(w, next, StateLevel0, in)
         ELSE IF ~reachable(w)
         THEN setState(w, "Init", StateLevel0, in)
         ELSE ZdpRequest(w, req, in)
    ELSE IF ev.what = "ApsConfirm"
    THEN IF w.zdpResult.apsReqId = EventApsConfirmId(ev)
            /\ EventApsConfirmStatus(ev) # ApsSuccessStatus
         THEN setState(w, "Init", StateLevel0, in)
         ELSE w
    ELSE IF ev.what = response
    THEN DEV_EnqueueEvent(
             setState(stopStateTimer(w, StateLevel0), "Init", StateLevel0, in),
             "Awake")
    ELSE w

\* the branches the three ZDP verification states share
ZdpVerifyState(w, ev, in, verified, next, req, response) ==
    IF ev.what = "StateEnter"
    THEN IF verified
         THEN setState(w, next, StateLevel0, in)
         ELSE IF ~reachable(w)
         THEN setState(w, "Init", StateLevel0, in)
         ELSE ZdpRequest(w, req, in)
    ELSE IF ev.what = "ApsConfirm"
    THEN IF w.zdpResult.apsReqId = EventApsConfirmId(ev)
            /\ EventApsConfirmStatus(ev) # ApsSuccessStatus
         THEN setState(w, "Init", StateLevel0, in)
         ELSE w
    ELSE IF ev.what = response
    THEN DEV_EnqueueEvent(
             setState(stopStateTimer(w, StateLevel0), "Init", StateLevel0, in),
             "Awake")
    ELSE IF ev.what = "StateTimeout"
    THEN setState(w, "Init", StateLevel0, in)
    ELSE w

DEV_NodeDescriptorStateHandler(w, ev, in) ==
    ZdpVerifyState(w, ev, in, ~coreNode.ndNull, "ActiveEndpoints",
                   "NodeDescriptorReq", "NodeDescriptor")

DEV_ActiveEndpointsStateHandler(w, ev, in) ==
    ZdpVerifyState(w, ev, in, ~coreNode.epEmpty, "SimpleDescriptor",
                   "ActiveEndpointsReq", "ActiveEndpoints")

\* needFetchEp == 0x00: no endpoint lacks a valid simple descriptor
DEV_SimpleDescriptorStateHandler(w, ev, in) ==
    ZdpVerifyState(w, ev, in, coreNode.epEmpty \/ coreNode.sdValid, "BasicCluster",
                   "SimpleDescriptorReq", "SimpleDescriptor")

DEV_GetSimpleDescriptorForServerCluster == coreNode.sdValid /\ coreNode.basicCluster

\* <<filled, device>>: the item is set, or is copied from a sub-device
DEV_FillItemFromSubdevices(w, itemSuffix) ==
    IF w.items[itemSuffix] THEN <<TRUE, w>>
    ELSE IF subItems[itemSuffix]
    THEN <<TRUE, [w EXCEPT !.items[itemSuffix] = TRUE]>>
    ELSE <<FALSE, w>>

\* <<enqueued, device>>
DEV_ZclRead(w, itemSuffix, in) ==
    IF ~reachable(w) THEN <<FALSE, w>>
    ELSE IF ~DEV_GetSimpleDescriptorForServerCluster THEN <<FALSE, w>>
    ELSE <<in.enq, [w EXCEPT !.readResult = ApsResult(in),
                             !.sent = Append(@, "ZclRead")]>>

BasicItems == <<"ManufacturerName", "ModelId">>

\* the loop that goes on with the next item after a read that was not enqueued
RECURSIVE BasicClusterLoopContinues(_, _, _, _)
BasicClusterLoopContinues(w, i, okCount, in) ==
    IF i > Len(BasicItems)
    THEN IF okCount # Len(BasicItems)
         THEN setState(w, "Init", StateLevel0, in)
         ELSE setState(w, "GetDeviceDescription", StateLevel0, in)
    ELSE LET fill == DEV_FillItemFromSubdevices(w, BasicItems[i])
         IN  IF fill[1]
             THEN BasicClusterLoopContinues(fill[2], i + 1, okCount + 1, in)
             ELSE LET read == DEV_ZclRead(fill[2], BasicItems[i], in)
                  IN  IF read[1]
                      THEN startStateTimer(read[2], MinMacPollRxOn, StateLevel0)
                      ELSE BasicClusterLoopContinues(read[2], i + 1, okCount, in)

\* the loop over the items from index i on, okCount filled so far
RECURSIVE BasicClusterLoop(_, _, _, _)
BasicClusterLoop(w, i, okCount, in) ==
    IF i > Len(BasicItems)
    THEN IF okCount # Len(BasicItems)
         THEN setState(w, "Init", StateLevel0, in)
         ELSE setState(w, "GetDeviceDescription", StateLevel0, in)
    ELSE LET fill == DEV_FillItemFromSubdevices(w, BasicItems[i])
         IN  IF fill[1]
             THEN BasicClusterLoop(fill[2], i + 1, okCount + 1, in)
             ELSE LET read == DEV_ZclRead(fill[2], BasicItems[i], in)
                  IN  IF read[1]
                      THEN startStateTimer(read[2], MinMacPollRxOn, StateLevel0)
                      ELSE \* break
                           IF okCount # Len(BasicItems)
                           THEN setState(read[2], "Init", StateLevel0, in)
                           ELSE setState(read[2], "GetDeviceDescription",
                                         StateLevel0, in)

DEV_BasicClusterStateHandler(w, ev, in) ==
    IF ev.what = "StateEnter"
    THEN BasicClusterLoop(w, 1, 0, in)
    ELSE IF ev.what = "ApsConfirm"
    THEN IF w.readResult.apsReqId = EventApsConfirmId(ev)
            /\ EventApsConfirmStatus(ev) # ApsSuccessStatus
         THEN setState(w, "Init", StateLevel0, in)
         ELSE w
    ELSE IF ev.what \in {"ManufacturerName", "ModelId"}
    THEN DEV_EnqueueEvent(
             setState(stopStateTimer(w, StateLevel0), "Init", StateLevel0, in),
             "Awake")
    ELSE IF ev.what = "StateTimeout"
    THEN setState(w, "Init", StateLevel0, in)
    ELSE w

\* GetDeviceDescription that takes the answers of the DDF engine the other
\* way round
GetDeviceDescriptionInverted(w, ev, in) ==
    IF ev.what = "StateEnter"
    THEN DEV_EnqueueEvent(w, "DDFInitRequest")
    ELSE IF ev.what = "DDFInitResponse"
    THEN IF ev.num = 1
         THEN setState(w, "Dead", StateLevel0, in)
         ELSE setState(w, "Idle", StateLevel0, in)
    ELSE w

\* GetDeviceDescription that gives up only on the answer 0
GetDeviceDescriptionZeroIsDead(w, ev, in) ==
    IF ev.what = "StateEnter"
    THEN DEV_EnqueueEvent(w, "DDFInitRequest")
    ELSE IF ev.what = "DDFInitResponse"
    THEN IF ev.num = 0
         THEN setState(w, "Dead", StateLevel0, in)
         ELSE setState(w, "Idle", StateLevel0, in)
    ELSE w

DEV_GetDeviceDescriptionHandler(w, ev, in) ==
    IF ev.what = "StateEnter"
    THEN DEV_EnqueueEvent(w, "DDFInitRequest")
    ELSE IF ev.what = "DDFInitResponse"
    THEN IF ev.num = 1
         THEN setState(w, "Idle", StateLevel0, in)
         ELSE setState(w, "Dead", StateLevel0, in)
    ELSE w

----------------------------------------------------------------------------
(* Level 0: Idle and Dead; level 1: bindings; level 2: polling *)

\* Q_ASSERT(cond): a debug build aborts, a release build goes on
Q_ASSERT(w, cond, in) == IF ~cond /\ in.abort THEN Crash(w) ELSE w

\* the sub-devices' pending state changes are not part of the model
DEV_CheckItemChanges(w, ev) == w

\* Idle that leaves the poll level installed when it is left
IdleKeepsPollLevel(w, ev, in) ==
    IF ev.what = "StateEnter"
    THEN setState(setState(w, "Binding", STATE_LEVEL_BINDING, in),
                  "PollIdle", STATE_LEVEL_POLL, in)
    ELSE IF ev.what = "StateLeave"
    THEN setState(w, NULL, STATE_LEVEL_BINDING, in)
    ELSE LET w1 == IF ev.what = "DDFReload"
                   THEN setState(w, "Init", StateLevel0, in)
                   ELSE w
         IN  handleEvent(handleEvent(w1, ev, STATE_LEVEL_BINDING, in),
                         ev, STATE_LEVEL_POLL, in)

DEV_IdleStateHandler(w, ev, in) ==
    IF ev.what = "StateEnter"
    THEN setState(setState(w, "Binding", STATE_LEVEL_BINDING, in),
                  "PollIdle", STATE_LEVEL_POLL, in)
    ELSE IF ev.what = "StateLeave"
    THEN setState(setState(w, NULL, STATE_LEVEL_BINDING, in),
                  NULL, STATE_LEVEL_POLL, in)
    ELSE LET w1 == IF ev.what = "DDFReload"
                   THEN setState(w, "Init", StateLevel0, in)
                   ELSE w
             w2 == DEV_CheckItemChanges(w1, ev)
         IN  \* process parallel states
             handleEvent(handleEvent(w2, ev, STATE_LEVEL_BINDING, in),
                         ev, STATE_LEVEL_POLL, in)

BindingVerifyStart(w, in) ==
    DEV_EnqueueEvent(
        setState([w EXCEPT !.binding.bindingIter = 0],
                 "BindingTableVerify", STATE_LEVEL_BINDING, in),
        "BindingTick")

DEV_BindingHandler(w, ev, in) ==
    IF ev.what \in {"Poll", "Awake"}
    THEN IF w.binding.bindingVerify = Invalid
            \/ w.binding.bindingVerify > BindingVerifyInterval
         THEN BindingVerifyStart(w, in)
         ELSE w
    ELSE IF ev.what = "BindingTable"
    THEN LET w1 == IF ev.num = ZdpSuccess
                   THEN [w EXCEPT !.binding.mgmtBindSupported = TRUE]
                   ELSE IF ev.num = ZdpNotSupported
                   THEN [w EXCEPT !.binding.mgmtBindSupported = FALSE]
                   ELSE w
         IN  BindingVerifyStart(w1, in)
    ELSE w

\* a verification that looks at one binding more than the table holds
BindingTableVerifyOneTooMany(w, ev, in) ==
    IF ev.what # "BindingTick" THEN w
    ELSE IF w.binding.bindingIter > coreNode.bindingTable
    THEN setState([w EXCEPT !.binding.bindingVerify = 0],
                  "Binding", STATE_LEVEL_BINDING, in)
    ELSE DEV_EnqueueEvent([w EXCEPT !.binding.bindingIter = @ + 1], "BindingTick")

DEV_BindingTableVerifyHandler(w, ev, in) ==
    IF ev.what # "BindingTick" THEN w
    ELSE IF w.binding.bindingIter >= coreNode.bindingTable
    THEN setState([w EXCEPT !.binding.bindingVerify = 0],
                  "Binding", STATE_LEVEL_BINDING, in)
    ELSE DEV_EnqueueEvent([w EXCEPT !.binding.bindingIter = @ + 1], "BindingTick")

RECURSIVE Reverse(_)
Reverse(s) == IF s = <<>> THEN <<>> ELSE Append(Reverse(Tail(s)), Head(s))

\* the due items in scan order, reversed for pop_back()
DEV_GetPollItems(in) ==
    Reverse([i \in 1 .. Len(in.due) |->
                [item |-> in.due[i].item, retry |-> 0]])

DEV_PollIdleStateHandler(w, ev, in) ==
    IF ev.what = "Poll"
    THEN LET w1 == [w EXCEPT !.pollItems = DEV_GetPollItems(in)]
         IN  IF w1.pollItems # <<>>
             THEN setState(w1, "PollNext", STATE_LEVEL_POLL, in)
             ELSE w1
    ELSE w

\* DA_GetReadFunction(poll.readParameters) finds a function: the read
\* parameters of the odd items name none
DA_GetReadFunction(poll) == poll.item % 2 = 0

back(q) == q[Len(q)]
pop_back(q) == SubSeq(q, 1, Len(q) - 1)

\* poll.retry++ without the cap
PollItemRetryNoCap(q) == [q EXCEPT ![Len(q)].retry = back(q).retry + 1]

\* poll.retry++ and the pop_back() at the cap, poll being pollItems.back()
PollItemRetry(q) ==
    LET r == back(q).retry + 1
    IN  IF r >= MaxPollItemRetries
        THEN pop_back(q)
        ELSE [q EXCEPT ![Len(q)].retry = r]

\* the same statements after pop_back() destroyed the item poll refers to:
\* the value read back is not defined, so the second pop_back() may or may
\* not run, and it runs on an empty vector if no item is left
PollItemRetryDangling(w, in) ==
    IF in.ub = "benign" THEN w
    ELSE IF w.pollItems = <<>> THEN Crash(w)
    ELSE [w EXCEPT !.pollItems = pop_back(@)]

\* PollNext that does not arm the timer after a read that was not enqueued
PollNextNoRetryTimer(w, ev, in) ==
    IF ev.what \in {"StateEnter", "StateTimeout"}
    THEN LET w0 == Q_ASSERT(w, ev.num = STATE_LEVEL_POLL, in)
             w1 == IF ~reachable(w0)
                   THEN [w0 EXCEPT !.pollItems = <<>>, !.dropped = Len(w0.pollItems)]
                   ELSE w0
         IN  IF w0.crashed THEN w0
             ELSE IF w1.pollItems = <<>>
             THEN setState(w1, "PollIdle", STATE_LEVEL_POLL, in)
             ELSE LET poll == back(w1.pollItems)
                      fn == DA_GetReadFunction(poll)
                      w2 == IF fn
                            THEN [w1 EXCEPT !.readResult = ApsResult(in),
                                            !.sent = Append(@, "PollRead")]
                            ELSE [w1 EXCEPT !.readResult = NoResult,
                                            !.pollItems = pop_back(@)]
                  IN  IF w2.readResult.isEnqueued
                      THEN setState(w2, "PollBusy", STATE_LEVEL_POLL, in)
                      ELSE IF fn
                      THEN [w2 EXCEPT !.pollItems = PollItemRetry(@)]
                      ELSE PollItemRetryDangling(w2, in)
    ELSE IF ev.what = "StateLeave"
    THEN stopStateTimer(w, STATE_LEVEL_POLL)
    ELSE w

\* PollNext that reads also for a device that is not reachable
PollNextIgnoresReachable(w, ev, in) ==
    IF ev.what \in {"StateEnter", "StateTimeout"}
    THEN LET w0 == Q_ASSERT(w, ev.num = STATE_LEVEL_POLL, in)
             w1 == w0
         IN  IF w0.crashed THEN w0
             ELSE IF w1.pollItems = <<>>
             THEN setState(w1, "PollIdle", STATE_LEVEL_POLL, in)
             ELSE LET poll == back(w1.pollItems)
                      fn == DA_GetReadFunction(poll)
                      w2 == IF fn
                            THEN [w1 EXCEPT !.readResult = ApsResult(in),
                                            !.sent = Append(@, "PollRead")]
                            ELSE [w1 EXCEPT !.readResult = NoResult,
                                            !.pollItems = pop_back(@)]
                  IN  IF w2.readResult.isEnqueued
                      THEN setState(w2, "PollBusy", STATE_LEVEL_POLL, in)
                      ELSE LET w3 == IF fn
                                     THEN [w2 EXCEPT !.pollItems = PollItemRetry(@)]
                                     ELSE PollItemRetryDangling(w2, in)
                           IN  IF w3.crashed THEN w3
                               ELSE startStateTimer(w3, MinMacPollRxOn,
                                                    STATE_LEVEL_POLL)
    ELSE IF ev.what = "StateLeave"
    THEN stopStateTimer(w, STATE_LEVEL_POLL)
    ELSE w

DEV_PollNextStateHandler(w, ev, in) ==
    IF ev.what \in {"StateEnter", "StateTimeout"}
    THEN LET w0 == Q_ASSERT(w, ev.num = STATE_LEVEL_POLL, in)
             w1 == IF ~reachable(w0)
                   THEN [w0 EXCEPT !.pollItems = <<>>, !.dropped = Len(w0.pollItems)]
                   ELSE w0
         IN  IF w0.crashed THEN w0
             ELSE IF w1.pollItems = <<>>
             THEN setState(w1, "PollIdle", STATE_LEVEL_POLL, in)
             ELSE LET poll == back(w1.pollItems)
                      fn == DA_GetReadFunction(poll)
                      w2 == IF fn
                            THEN [w1 EXCEPT !.readResult = ApsResult(in),
                                            !.sent = Append(@, "PollRead")]
                            ELSE [w1 EXCEPT !.readResult = NoResult,
                                            !.pollItems = pop_back(@)]
                  IN  IF w2.readResult.isEnqueued
                      THEN setState(w2, "PollBusy", STATE_LEVEL_POLL, in)
                      ELSE LET w3 == IF fn
                                     THEN [w2 EXCEPT !.pollItems = PollItemRetry(@)]
                                     ELSE PollItemRetryDangling(w2, in)
                           IN  IF w3.crashed THEN w3
                               ELSE startStateTimer(w3, MinMacPollRxOn,
                                                    STATE_LEVEL_POLL)
    ELSE IF ev.what = "StateLeave"
    THEN stopStateTimer(w, STATE_LEVEL_POLL)
    ELSE w

\* PollBusy that drops the item whatever the status of the confirm is
PollBusyDropsOnFailure(w, ev, in) ==
    IF ev.what = "StateEnter"
    THEN startStateTimer(w, MinMacPollRxOn, STATE_LEVEL_POLL)
    ELSE IF ev.what = "StateLeave"
    THEN stopStateTimer(w, STATE_LEVEL_POLL)
    ELSE IF ev.what = "ApsConfirm" /\ EventApsConfirmId(ev) = w.readResult.apsReqId
    THEN IF w.pollItems = <<>> THEN Crash(w)
         ELSE setState([w EXCEPT !.pollItems = pop_back(@)], "PollNext",
                       STATE_LEVEL_POLL, in)
    ELSE IF ev.what = "StateTimeout"
    THEN setState(w, "PollNext", STATE_LEVEL_POLL, in)
    ELSE w

\* PollBusy that counts a timeout as a failed read
PollBusyTimeoutCounts(w, ev, in) ==
    IF ev.what = "StateEnter"
    THEN startStateTimer(w, MinMacPollRxOn, STATE_LEVEL_POLL)
    ELSE IF ev.what = "StateLeave"
    THEN stopStateTimer(w, STATE_LEVEL_POLL)
    ELSE IF ev.what = "ApsConfirm" /\ EventApsConfirmId(ev) = w.readResult.apsReqId
    THEN IF w.pollItems = <<>> THEN Crash(w)
         ELSE LET w1 == IF EventApsConfirmStatus(ev) = ApsSuccessStatus
                        THEN [w EXCEPT !.pollItems = pop_back(@)]
                        ELSE [w EXCEPT !.pollItems = PollItemRetry(@)]
              IN  setState(w1, "PollNext", STATE_LEVEL_POLL, in)
    ELSE IF ev.what = "StateTimeout"
    THEN LET w0 == Q_ASSERT(w, ev.num = STATE_LEVEL_POLL, in)
         IN  IF w0.crashed \/ w0.pollItems = <<>> THEN w0
             ELSE setState([w0 EXCEPT !.pollItems = PollItemRetry(@)], "PollNext",
                           STATE_LEVEL_POLL, in)
    ELSE w

\* PollBusy that takes a Poll as PollIdle does and fills the queue anew
PollBusyTakesPoll(w, ev, in) ==
    IF ev.what = "StateEnter"
    THEN startStateTimer(w, MinMacPollRxOn, STATE_LEVEL_POLL)
    ELSE IF ev.what = "StateLeave"
    THEN stopStateTimer(w, STATE_LEVEL_POLL)
    ELSE IF ev.what = "ApsConfirm" /\ EventApsConfirmId(ev) = w.readResult.apsReqId
    THEN IF w.pollItems = <<>> THEN Crash(w)
         ELSE LET w1 == IF EventApsConfirmStatus(ev) = ApsSuccessStatus
                        THEN [w EXCEPT !.pollItems = pop_back(@)]
                        ELSE [w EXCEPT !.pollItems = PollItemRetry(@)]
              IN  setState(w1, "PollNext", STATE_LEVEL_POLL, in)
    ELSE IF ev.what = "StateTimeout"
    THEN LET w0 == Q_ASSERT(w, ev.num = STATE_LEVEL_POLL, in)
         IN  IF w0.crashed THEN w0
             ELSE setState(w0, "PollNext", STATE_LEVEL_POLL, in)
    ELSE IF ev.what = "Poll"
    THEN [w EXCEPT !.pollItems = DEV_GetPollItems(in)]
    ELSE w

DEV_PollBusyStateHandler(w, ev, in) ==
    IF ev.what = "StateEnter"
    THEN startStateTimer(w, MinMacPollRxOn, STATE_LEVEL_POLL)
    ELSE IF ev.what = "StateLeave"
    THEN stopStateTimer(w, STATE_LEVEL_POLL)
    ELSE IF ev.what = "ApsConfirm" /\ EventApsConfirmId(ev) = w.readResult.apsReqId
    THEN IF w.pollItems = <<>> THEN Crash(w)
         ELSE LET w1 == IF EventApsConfirmStatus(ev) = ApsSuccessStatus
                        THEN [w EXCEPT !.pollItems = pop_back(@)]
                        ELSE [w EXCEPT !.pollItems = PollItemRetry(@)]
              IN  setState(w1, "PollNext", STATE_LEVEL_POLL, in)
    ELSE IF ev.what = "StateTimeout"
    THEN LET w0 == Q_ASSERT(w, ev.num = STATE_LEVEL_POLL, in)
         IN  IF w0.crashed THEN w0
             ELSE setState(w0, "PollNext", STATE_LEVEL_POLL, in)
    ELSE w

\* a Dead handler that starts over when the descriptions are reloaded
DeadRestartsOnReload(w, ev, in) ==
    IF ev.what = "DDFReload" THEN setState(w, "Init", StateLevel0, in) ELSE w

DEV_DeadStateHandler(w, ev, in) == w

----------------------------------------------------------------------------
(* Dispatch *)

HandlerLevel(handler) ==
    IF handler \in {"Binding", "BindingTableVerify"} THEN STATE_LEVEL_BINDING
    ELSE IF handler \in {"PollIdle", "PollNext", "PollBusy"} THEN STATE_LEVEL_POLL
    ELSE StateLevel0

EventKind(ev) == IF ev.what \in {"StateEnter", "StateLeave"} THEN ev.what ELSE "Event"

\* the call is noted in last before the handler runs
Called(w, handler, ev) ==
    IF handler = NULL THEN w
    ELSE [w EXCEPT !.last[HandlerLevel(handler)] = EventKind(ev)]

\* state[level](q, event): the call through the handler pointer
CallHandler(w0, handler, ev, in) ==
    IF w0.crashed THEN w0
    ELSE LET w == Called(w0, handler, ev) IN
         CASE handler = "Init" -> DEV_InitStateHandler(w, ev, in)
           [] handler = "NodeDescriptor" -> DEV_NodeDescriptorStateHandler(w, ev, in)
           [] handler = "ActiveEndpoints" -> DEV_ActiveEndpointsStateHandler(w, ev, in)
           [] handler = "SimpleDescriptor" -> DEV_SimpleDescriptorStateHandler(w, ev, in)
           [] handler = "BasicCluster" -> DEV_BasicClusterStateHandler(w, ev, in)
           [] handler = "GetDeviceDescription" -> DEV_GetDeviceDescriptionHandler(w, ev, in)
           [] handler = "Idle" -> DEV_IdleStateHandler(w, ev, in)
           [] handler = "Dead" -> DEV_DeadStateHandler(w, ev, in)
           [] handler = "Binding" -> DEV_BindingHandler(w, ev, in)
           [] handler = "BindingTableVerify" -> DEV_BindingTableVerifyHandler(w, ev, in)
           [] handler = "PollIdle" -> DEV_PollIdleStateHandler(w, ev, in)
           [] handler = "PollNext" -> DEV_PollNextStateHandler(w, ev, in)
           [] handler = "PollBusy" -> DEV_PollBusyStateHandler(w, ev, in)
           [] handler = NULL -> Crash(w)

\* handleEvent that leaves DevicePrivate::awake alone
handleEventNoAwake(w, ev, level, in) ==
    IF w.crashed THEN w
    ELSE IF ev.what \in {"StateEnter", "StateLeave"}
    THEN CallHandler(w, w.state[ev.num], ev, in)
    ELSE IF w.state[level] # NULL
    THEN CallHandler(w, w.state[level], ev, in)
    ELSE w

handleEvent(w, ev, level, in) ==
    IF w.crashed THEN w
    ELSE IF ev.what \in {"StateEnter", "StateLeave"}
    THEN CallHandler(w, w.state[ev.num], ev, in)
    ELSE IF w.state[level] # NULL
    THEN LET w1 == IF ev.what = "Awake" /\ level = StateLevel0
                   THEN [w EXCEPT !.awake = 0]
                   ELSE w
         IN  CallHandler(w1, w.state[level], ev, in)
    ELSE w

timerEvent(w, i, in) ==
    CallHandler([w EXCEPT !.timer[i] = Inactive], w.state[i],
                Ev("StateTimeout", i), in)

----------------------------------------------------------------------------
(* The environment's answers *)

NoInput == [enq |-> FALSE, reqId |-> 0, due |-> <<>>, ub |-> "benign", abort |-> FALSE]

\* the items DEV_GetPollItems finds due, in scan order
DueLists ==
    UNION {[1 .. n -> [item : 1 .. MaxPollItems]] : n \in 0 .. MaxPollItems}

DueChoices ==
    {q \in DueLists : \A i \in 1 .. Len(q) : \A j \in 1 .. Len(q) :
                          i < j => q[i].item < q[j].item}

\* only StateEnter and StateTimeout make a handler call the APS controller,
\* only Poll makes one call DEV_GetPollItems
Inputs(ev) ==
    IF ev.what \in {"StateEnter", "StateTimeout"}
    THEN {in \in [enq : BOOLEAN, reqId : 0 .. MaxReqId, due : {<<>>},
                   ub : {"benign", "pop"}, abort : BOOLEAN] :
              ~in.enq => in.reqId = 0}
    ELSE IF ev.what = "Poll"
    THEN [enq : {FALSE}, reqId : {0}, due : DueChoices, ub : {"benign"},
          abort : {FALSE}]
    ELSE {NoInput}

AllInputs == Inputs(Ev("StateEnter", 0)) \cup Inputs(Ev("Poll", 0)) \cup {NoInput}

BasicItemNames == {"ManufacturerName", "ModelId"}

----------------------------------------------------------------------------
(* Actions *)

envVars == <<deviceKey, coreNode, reachableItem, sleeper, subItems, ddfMatch,
             recording, devices>>

Commit(w) ==
    /\ state' = w.state
    /\ timer' = w.timer
    /\ awake' = w.awake
    /\ binding' = w.binding
    /\ pollItems' = w.pollItems
    /\ zdpResult' = w.zdpResult
    /\ readResult' = w.readResult
    /\ node' = w.node
    /\ items' = w.items
    /\ mailbox' = w.mailbox
    /\ crashed' = w.crashed
    /\ sent' = w.sent
    /\ dropped' = w.dropped
    /\ last' = w.last

\* the DDF engine handles a DDFInitRequest by queueing its answer
DDFAnswer(w, ev) ==
    IF ev.what = "DDFInitRequest"
    THEN eventNotify(w, Ev("DDFInitResponse", ddfMatch))
    ELSE w

RECURSIVE Sum(_)
Sum(g) == IF g = <<>> THEN 0 ELSE Head(g) + Sum(Tail(g))

\* the events a step queued form one more group of the mailbox
Grouped(g, w) ==
    IF Len(w.mailbox) > Sum(g) THEN Append(g, Len(w.mailbox) - Sum(g)) ELSE g

Count(q, what) == Cardinality({i \in 1 .. Len(q) : q[i].what = what})

\* what the step that handled ev, starting with the mailbox q and leaving the
\* device as w, adds to the history
Recorded(w, ev, q) ==
    LET observed == IF ev.what = "DDFInitResponse"
                    THEN <<Ev("DDFInitResponse", ev.num)>>
                    ELSE <<>>
        emitted  == IF Count(w.mailbox, "DDFInitRequest")
                          > Count(q, "DDFInitRequest")
                    THEN <<Ev("DDFInitRequest", 0)>>
                    ELSE <<>>
        entered  == IF w.state[StateLevel0] # state[StateLevel0]
                    THEN <<w.state[StateLevel0]>>
                    ELSE <<>>
        all      == history \o observed \o emitted \o entered
    IN  IF recording THEN SubSeq(all, 1, Min(Len(all), MaxHistory)) ELSE history

\* the head of the mailbox is handed to Device::handleEvent, the APS controller
\* and DEV_GetPollItems answering with one of ins
DispatchWith(ins) ==
    /\ ~crashed
    /\ mailbox # <<>>
    /\ LET ev == Head(mailbox)
           g  == IF Head(groups) > 1
                 THEN <<Head(groups) - 1>> \o Tail(groups)
                 ELSE Tail(groups)
       IN  \E in \in Inputs(ev) \cap ins :
               LET w == DDFAnswer(
                            handleEvent([Cur EXCEPT !.mailbox = Tail(@)], ev,
                                        StateLevel0, in),
                            ev)
               IN  /\ Commit(w)
                   /\ groups' = Grouped(g, w)
                   /\ history' = Recorded(w, ev, Tail(mailbox))
    /\ inGroup' = (Head(groups) > 1)
    /\ UNCHANGED envVars

Dispatch == DispatchWith(AllInputs)

\* the APS controller accepts every request
DispatchEnqueued == DispatchWith({in \in AllInputs : in.enq})

\* an event of another component reaches Device::handleEvent: it was queued
\* before the events of the mailbox, which no step queued behind it, so it is
\* not handled between two events that one step queued together
DeliverWith(ev, ins) ==
    /\ ~crashed
    /\ ~inGroup
    /\ Len(mailbox) <= MaxPending
    /\ \E in \in Inputs(ev) \cap ins :
          LET w == handleEvent(Cur, ev, StateLevel0, in)
          IN  /\ Commit(w)
              /\ groups' = Grouped(groups, w)
              /\ history' = Recorded(w, ev, mailbox)
    /\ UNCHANGED <<envVars, inGroup>>

Deliver(ev) == DeliverWith(ev, AllInputs)

Poll == Deliver(Ev("Poll", 0))

Awake == Deliver(Ev("Awake", 0))

DDFReload == Deliver(Ev("DDFReload", 0))

ReachableChanged == Deliver(Ev("StateReachable", 0))

BindingTable == \E status \in {ZdpSuccess, ZdpNotSupported} : Deliver(Ev("BindingTable", status))

ApsConfirm ==
    \E id \in 0 .. MaxReqId : \E status \in ApsStatuses : Deliver(ApsConfirmEvent(id, status))

\* a ZDP response was stored in the node and is announced to the device
ZdpResponse ==
    \/ ~coreNode.ndNull /\ Deliver(Ev("NodeDescriptor", 0))
    \/ ~coreNode.epEmpty /\ Deliver(Ev("ActiveEndpoints", 0))
    \/ coreNode.sdValid /\ Deliver(Ev("SimpleDescriptor", 0))

\* a Basic cluster attribute of the device was set and is announced
AttrChanged == \E it \in BasicItemNames : items[it] /\ Deliver(Ev(it, 0))

\* QBasicTimer of level i expired, the APS controller answering with one of ins
TimerFireWith(i, ins) ==
    /\ ~crashed
    /\ timer[i] = 0
    /\ \E in \in Inputs(Ev("StateTimeout", i)) \cap ins :
          LET w == timerEvent(Cur, i, in)
          IN  /\ Commit(w)
              /\ groups' = Grouped(groups, w)
              /\ history' = Recorded(w, Ev("StateTimeout", i), mailbox)
    /\ UNCHANGED <<envVars, inGroup>>

TimerFireAt(i) == TimerFireWith(i, AllInputs)

TimerFire == \E i \in Levels : TimerFireAt(i)

Elapse(t, dt, cap) == IF t = Invalid THEN Invalid ELSE Min(t + dt, cap)

ActiveTimers == {i \in Levels : timer[i] # Inactive}

\* time passes while the mailbox is empty: by TimeStep, or less if a timer
\* expires earlier, as long as the last binding verification is recent
Tick ==
    /\ ~crashed
    /\ mailbox = <<>>
    /\ binding.bindingVerify < MaxWatch
    /\ LET due == {timer[i] : i \in ActiveTimers}
           dt  == IF due = {} THEN TimeStep
                  ELSE Min(TimeStep, CHOOSE m \in due : \A x \in due : m <= x)
       IN  /\ dt > 0
           /\ timer' = [i \in Levels |->
                           IF timer[i] = Inactive THEN Inactive ELSE timer[i] - dt]
           /\ awake' = Elapse(awake, dt, MinMacPollRxOn)
           /\ binding' = [binding EXCEPT
                  !.bindingVerify = Elapse(@, dt, BindingVerifyInterval + 1)]
    /\ sent' = <<>>
    /\ dropped' = 0
    /\ UNCHANGED <<state, pollItems, zdpResult, readResult, node, items, mailbox,
                   crashed, groups, inGroup, last, history>>
    /\ UNCHANGED envVars

\* the device is left alone for five minutes: every timer that was armed has
\* expired by then and fires late
TickLong ==
    /\ ~crashed
    /\ mailbox = <<>>
    /\ timer' = [i \in Levels |-> IF timer[i] = Inactive THEN Inactive ELSE 0]
    /\ awake' = Elapse(awake, BindingVerifyInterval, MinMacPollRxOn)
    /\ binding' = [binding EXCEPT
           !.bindingVerify = Elapse(@, BindingVerifyInterval, BindingVerifyInterval + 1)]
    /\ sent' = <<>>
    /\ dropped' = 0
    /\ UNCHANGED <<state, pollItems, zdpResult, readResult, node, items, mailbox,
                   crashed, groups, inGroup, last, history>>
    /\ UNCHANGED envVars

devVars == <<state, timer, awake, binding, pollItems, zdpResult, readResult, node,
             mailbox, crashed, groups, inGroup, last, history>>

\* the core stores what a ZDP response told it about the node
NodeLearn ==
    /\ ~crashed
    /\ coreNode.exists
    /\ \/ \E rx \in BOOLEAN :
            coreNode.ndNull /\ coreNode' = [coreNode EXCEPT !.ndNull = FALSE,
                                                            !.rxOnWhenIdle = rx]
       \/ /\ ~coreNode.ndNull
          /\ coreNode.epEmpty
          /\ coreNode' = [coreNode EXCEPT !.epEmpty = FALSE]
       \/ \E basic \in BOOLEAN :
            ~coreNode.epEmpty /\ ~coreNode.sdValid /\ coreNode' = [coreNode EXCEPT !.sdValid = TRUE,
                                                             !.basicCluster = basic]
    /\ sent' = <<>>
    /\ dropped' = 0
    /\ UNCHANGED <<devVars, items, deviceKey, reachableItem, sleeper, subItems, ddfMatch,
                   recording, devices>>

\* the resource layer sets the Reachable flag of the device
ReachableSet ==
    /\ ~crashed
    /\ reachableItem' = ~reachableItem
    /\ sent' = <<>>
    /\ dropped' = 0
    /\ UNCHANGED <<devVars, items, subItems, deviceKey, coreNode, sleeper, ddfMatch,
                   recording, devices>>

\* a read response sets a Basic cluster item of the device
ItemSet ==
    /\ ~crashed
    /\ coreNode.sdValid
    /\ \E it \in BasicItemNames :
          /\ ~items[it]
          /\ items' = [items EXCEPT ![it] = TRUE]
    /\ sent' = <<>>
    /\ dropped' = 0
    /\ UNCHANGED <<devVars, deviceKey, coreNode, reachableItem, sleeper, subItems,
                   ddfMatch, recording, devices>>

\* DEV_GetOrCreateDevice has returned: the constructor's setState(Init) emitted
\* StateEnter before eventNotify was connected, so nothing is queued
DeviceInit ==
    /\ state = [i \in Levels |-> IF i = StateLevel0 THEN "Init" ELSE NULL]
    /\ timer = [i \in Levels |-> Inactive]
    /\ awake = Invalid
    /\ binding = [bindingVerify |-> Invalid, bindingIter |-> 0,
                  mgmtBindSupported |-> FALSE]
    /\ pollItems = <<>>
    /\ zdpResult = NoResult
    /\ readResult = NoResult
    /\ node = FALSE
    /\ items = [it \in BasicItemNames |-> FALSE]
    /\ mailbox = <<>>
    /\ crashed = FALSE
    /\ sent = <<>>
    /\ dropped = 0
    /\ groups = <<>>
    /\ inGroup = FALSE
    /\ last = [i \in Levels |-> "none"]
    /\ history = <<>>

----------------------------------------------------------------------------
(* The device container *)

\* nullptr, as the id of no Device object
NoDevice == 0

ZeroKey == <<0, 0>>

\* the keys the container is asked for
RegistryKeys == {ZeroKey, <<DdeMacPrefix, 1>>, <<DdeMacPrefix, 2>>, <<1412352, 2>>}

\* Device::Device: the id stands for the address of the object
NewDevice(key, id) ==
    [key |-> key, id |-> id,
     state |-> [i \in Levels |-> IF i = StateLevel0 THEN "Init" ELSE NULL]]

\* std::find_if over the container: the first index with the key, end() is
\* one past the last
find_if(ds, key) ==
    IF \E i \in 1 .. Len(ds) : ds[i].key = key
    THEN CHOOSE i \in 1 .. Len(ds) :
            ds[i].key = key /\ \A j \in 1 .. i - 1 : ds[j].key # key
    ELSE Len(ds) + 1

erase(ds, i) == SubSeq(ds, 1, i - 1) \o SubSeq(ds, i + 1, Len(ds))

DEV_GetDevice(r, key) ==
    LET d == find_if(r.devices, key)
    IN  [r EXCEPT !.result = IF d # Len(r.devices) + 1
                             THEN r.devices[d].id
                             ELSE NoDevice]

\* DEV_GetOrCreateDevice that constructs a Device whatever the container holds
GetOrCreateAlwaysNew(r, key) ==
    [r EXCEPT !.devices = Append(@, NewDevice(key, r.constructed + 1)),
              !.constructed = @ + 1,
              !.result = r.constructed + 1]

DEV_GetOrCreateDevice(r, key) ==
    LET d == find_if(r.devices, key)
    IN  IF d = Len(r.devices) + 1
        THEN [r EXCEPT !.devices = Append(@, NewDevice(key, r.constructed + 1)),
                       !.constructed = @ + 1,
                       !.result = r.constructed + 1]
        ELSE [r EXCEPT !.result = r.devices[d].id]

DEV_RemoveDevice(r, key) ==
    LET i == find_if(r.devices, key)
    IN  [r EXCEPT !.devices = IF i # Len(r.devices) + 1 THEN erase(@, i) ELSE @,
                  !.removed = FALSE]

\* the container after DEV_GetOrCreateDevice(key) on an empty one; live and
\* call keep track of the keys created and not removed and of the last call
Registered(key) ==
    [DEV_GetOrCreateDevice([devices |-> <<>>, constructed |-> 0, result |-> NoDevice,
                            removed |-> FALSE, live |-> {},
                            call |-> [op |-> "getOrCreate", key |-> key]], key)
       EXCEPT !.live = {key}]

\* a node the core knows nothing about yet
UnknownNode(n) ==
    [exists |-> TRUE, nwk |-> 1, ndNull |-> TRUE, rxOnWhenIdle |-> FALSE,
     epEmpty |-> TRUE, sdValid |-> FALSE, basicCluster |-> FALSE, bindingTable |-> n]

\* a node whose descriptors the core has stored
KnownNode(rx, n) ==
    [exists |-> TRUE, nwk |-> 1, ndNull |-> FALSE, rxOnWhenIdle |-> rx,
     epEmpty |-> FALSE, sdValid |-> TRUE, basicCluster |-> TRUE, bindingTable |-> n]

----------------------------------------------------------------------------
(* The operational phase: a known node whose sub-devices carry the Basic
   cluster items *)

InitIdle ==
    /\ DeviceInit
    /\ deviceKey = <<DdeMacPrefix, 1>>
    /\ devices = Registered(deviceKey)
    /\ coreNode = KnownNode(TRUE, MaxBindings)
    /\ subItems = [it \in BasicItemNames |-> TRUE]
    /\ reachableItem = FALSE
    /\ sleeper = FALSE
    /\ ddfMatch = 1
    /\ recording = FALSE

NextIdle ==
    \/ Dispatch
    \/ Poll
    \/ Awake
    \/ DDFReload
    \/ BindingTable
    \/ ApsConfirm
    \/ TimerFire
    \/ Tick
    \/ TickLong
    \/ ReachableSet

SpecIdle == InitIdle /\ [][NextIdle]_vars

----------------------------------------------------------------------------
(* The verification phase: a node the core still has to learn about, and no
   device description that matches it *)

InitVerify ==
    /\ DeviceInit
    /\ deviceKey = <<DdeMacPrefix, 1>>
    /\ devices = Registered(deviceKey)
    /\ coreNode = UnknownNode(0)
    /\ subItems = [it \in BasicItemNames |-> FALSE]
    /\ reachableItem = FALSE
    /\ sleeper = TRUE
    /\ ddfMatch = 0
    /\ recording = FALSE

NextVerify ==
    \/ Dispatch
    \/ Poll
    \/ Awake
    \/ ApsConfirm
    \/ ZdpResponse
    \/ AttrChanged
    \/ TimerFire
    \/ Tick
    \/ NodeLearn
    \/ ItemSet
    \/ ReachableSet

SpecVerify == InitVerify /\ [][NextVerify]_vars

----------------------------------------------------------------------------
(* Scenario S1: a new device whose node is known and whose sub-devices carry
   the Basic cluster items gets one Poll; queued events are dispatched *)

InitS1 ==
    /\ DeviceInit
    /\ deviceKey = <<DdeMacPrefix, 1>>
    /\ devices = Registered(deviceKey)
    /\ \E rx \in BOOLEAN : \E n \in 0 .. MaxBindings : coreNode = KnownNode(rx, n)
    /\ subItems = [it \in BasicItemNames |-> TRUE]
    /\ reachableItem \in BOOLEAN
    /\ sleeper \in BOOLEAN
    /\ ddfMatch = 1
    /\ recording = TRUE

\* the one Poll of the scenario: no handler was called before
PollOnce == (\A L \in Levels : last[L] = "none") /\ Poll

NextS1 == PollOnce \/ Dispatch

SpecS1 == InitS1 /\ [][NextS1]_vars /\ WF_vars(PollOnce) /\ WF_vars(Dispatch)

----------------------------------------------------------------------------
(* Scenario S2: a device that is reachable by its flag, whose node has no node
   descriptor; the APS controller accepts every request and nothing answers *)

InitS2 ==
    /\ DeviceInit
    /\ deviceKey = <<DdeMacPrefix, 1>>
    /\ devices = Registered(deviceKey)
    /\ \E n \in 0 .. MaxBindings : coreNode = UnknownNode(n)
    /\ subItems = [it \in BasicItemNames |-> FALSE]
    /\ reachableItem = TRUE
    /\ sleeper = FALSE
    /\ ddfMatch = 0
    /\ recording = FALSE

\* the APS layer confirms the delivery of a request
ApsConfirmOk == \E id \in 0 .. MaxReqId : Deliver(ApsConfirmEvent(id, ApsSuccessStatus))

NextS2 ==
    \/ Poll
    \/ Awake
    \/ ReachableChanged
    \/ ApsConfirmOk
    \/ DispatchEnqueued
    \/ TimerFire
    \/ Tick

SpecS2 ==
    /\ InitS2
    /\ [][NextS2]_vars
    /\ WF_vars(Poll)
    /\ WF_vars(DispatchEnqueued)
    /\ WF_vars(TimerFire)
    /\ WF_vars(Tick)

----------------------------------------------------------------------------
(* Scenario S4: a reachable device that gets to Idle; every Poll finds one item
   due, which has a read function, and the APS controller refuses every
   request *)

InitS4 ==
    /\ DeviceInit
    /\ deviceKey = <<DdeMacPrefix, 1>>
    /\ devices = Registered(deviceKey)
    /\ \E n \in 0 .. MaxBindings : coreNode = KnownNode(TRUE, n)
    /\ subItems = [it \in BasicItemNames |-> TRUE]
    /\ reachableItem = TRUE
    /\ sleeper = FALSE
    /\ ddfMatch = 1
    /\ recording = FALSE

SingleItem == <<[item |-> 2]>>

Refused == {in \in AllInputs : ~in.enq /\ in.due \in {<<>>, SingleItem}}

PollSingle == DeliverWith(Ev("Poll", 0), {in \in Refused : in.due = SingleItem})

DispatchRefused == DispatchWith(Refused)

TimerFireRefused == \E i \in Levels : TimerFireWith(i, Refused)

NextS4 ==
    \/ PollSingle
    \/ DispatchRefused
    \/ TimerFireRefused
    \/ Tick
    \/ TickLong

SpecS4 ==
    /\ InitS4
    /\ [][NextS4]_vars
    /\ WF_vars(DispatchRefused)
    /\ WF_vars(TimerFireRefused)
    /\ WF_vars(TickLong)

----------------------------------------------------------------------------
(* The coordinator: the node of the device has the network address 0x0000 *)

Coordinator(n) == [n EXCEPT !.nwk = 0]

\* a key of the vendor of the coordinator hardware and a key of another vendor
CoordinatorKeys == {<<DdeMacPrefix, 2>>, <<1412352, 2>>}

InitCoordinator ==
    /\ DeviceInit
    /\ deviceKey \in CoordinatorKeys
    /\ devices = Registered(deviceKey)
    /\ coreNode \in {Coordinator(UnknownNode(0)), Coordinator(KnownNode(TRUE, 0))}
    /\ subItems = [it \in BasicItemNames |-> FALSE]
    /\ reachableItem \in BOOLEAN
    /\ sleeper = FALSE
    /\ ddfMatch = 0
    /\ recording = FALSE

NextCoordinator ==
    \/ Dispatch
    \/ Poll
    \/ Awake
    \/ ApsConfirm
    \/ TimerFire
    \/ Tick

SpecCoordinator == InitCoordinator /\ [][NextCoordinator]_vars

----------------------------------------------------------------------------
(* Properties *)

Pending(what, num) == \E i \in 1 .. Len(mailbox) : mailbox[i] = Ev(what, num)

SubLevels == {STATE_LEVEL_BINDING, STATE_LEVEL_POLL}

\* C1 as stated: at every point between two processed events a handler is
\* installed at level 0, and one is installed at level 1 and at level 2 if and
\* only if the level 0 handler is Idle
C1_AsStated ==
    /\ state[StateLevel0] # NULL
    /\ \A L \in SubLevels : state[L] # NULL <=> state[StateLevel0] = "Idle"

\* C1: a handler is always installed at level 0; a handler at level 1 or 2
\* implies that level 0 is Idle; and once the StateEnter of level 0 that
\* setState(Idle) queued has been processed, Idle has both levels installed
C1_SubLevelsOnlyInIdle ==
    /\ state[StateLevel0] # NULL
    /\ \A L \in SubLevels : state[L] # NULL => state[StateLevel0] = "Idle"
    /\ (state[StateLevel0] = "Idle" /\ ~Pending("StateEnter", StateLevel0))
           => \A L \in SubLevels : state[L] # NULL

\* setState(Idle) has run, its StateEnter is still queued
C1_Witness ==
    /\ state[StateLevel0] = "Idle"
    /\ \A L \in SubLevels : state[L] = NULL
    /\ Pending("StateEnter", StateLevel0)
    /\ ~crashed

\* C3: setState(h, L) with h the handler that level L already has returns the
\* device as it was: handlers, timers, poll queue, request records and the
\* mailbox are the same, for an installed and for an absent handler; so when
\* DDFReload makes Idle leave before it installed levels 1 and 2, the
\* setState(nullptr) calls of its StateLeave change nothing and the step only
\* installs Init and queues its StateEnter
C3_SetStateSameIsNoOp ==
    /\ [](\A L \in Levels : \A in \in AllInputs :
            setState(Cur, state[L], L, in) = Cur)
    /\ [][(/\ state[StateLevel0] = "Idle"
           /\ \A L \in SubLevels : state[L] = NULL
           /\ DDFReload)
             => /\ state' = [state EXCEPT ![StateLevel0] = "Init"]
                /\ mailbox' = Append(mailbox, Ev("StateEnter", StateLevel0))
                /\ timer' = timer
                /\ pollItems' = pollItems
                /\ zdpResult' = zdpResult
                /\ readResult' = readResult]_vars

\* Idle was left by DDFReload before its StateEnter was processed: its
\* StateLeave called setState(nullptr) on the two levels that were still absent
C3_Witness ==
    /\ state[StateLevel0] = "Init"
    /\ \A it \in BasicItemNames : items[it]
    /\ \A L \in SubLevels : state[L] = NULL /\ last[L] = "none"
    /\ mailbox = <<Ev("StateEnter", StateLevel0), Ev("StateEnter", StateLevel0)>>

\* a step that keeps the items of the poll queue, possibly dropping the last
\* ones, and lowers no retry count
QueueKept ==
    /\ Len(pollItems') <= Len(pollItems)
    /\ \A i \in 1 .. Len(pollItems') :
          /\ pollItems'[i].item = pollItems[i].item
          /\ pollItems'[i].retry >= pollItems[i].retry

\* C4: the retry count of every item of the poll queue is in
\* 0 .. MaxPollItemRetries, and no step lowers the retry count of an item that
\* stays in the queue: a step either keeps the queue up to dropped items and
\* raised counts, or is the Poll in PollIdle that fills the queue anew
C4_RetryBounded ==
    /\ [](\A i \in 1 .. Len(pollItems) :
            pollItems[i].retry \in 0 .. MaxPollItemRetries)
    /\ [][QueueKept \/ (state[STATE_LEVEL_POLL] = "PollIdle" /\ Poll)]_vars

\* an item was retried up to the last count below the cap
C4_Witness ==
    /\ pollItems # <<>>
    /\ back(pollItems).retry = MaxPollItemRetries - 1
    /\ state[STATE_LEVEL_POLL] = "PollNext"

InPollBusy == state[StateLevel0] = "Idle" /\ state[STATE_LEVEL_POLL] = "PollBusy"

C7_AsStated ==
    [][(/\ state[StateLevel0] = "Idle"
        /\ state[STATE_LEVEL_BINDING] = "Binding"
        /\ binding.bindingVerify # Invalid
        /\ binding.bindingVerify <= BindingVerifyInterval)
          => state'[STATE_LEVEL_BINDING] # "BindingTableVerify"]_vars

\* C2 as stated: when a StateEnter of level L is dispatched, the last event the
\* handlers of level L were called with is a StateLeave, or there was none
C2_AsStated ==
    [][\A L \in Levels :
          (Dispatch /\ Head(mailbox) = Ev("StateEnter", L))
              => last[L] \in {"none", "StateLeave"}]_vars

VerificationStates ==
    {"NodeDescriptor", "ActiveEndpoints", "SimpleDescriptor", "BasicCluster"}

\* C6: a device that stays in a verification state after the StateEnter was
\* processed has the timer of level 0 running with no more than
\* MinMacPollRxOn ms to go, and when that timer expires in a verification
\* state level 0 goes to Init
C6_VerificationTimeout ==
    /\ []((/\ state[StateLevel0] \in VerificationStates
           /\ ~Pending("StateEnter", StateLevel0)
           /\ ~crashed)
             => timer[StateLevel0] \in 0 .. MinMacPollRxOn)
    /\ [][(state[StateLevel0] \in VerificationStates /\ TimerFireAt(StateLevel0))
             => state'[StateLevel0] = "Init"]_vars

\* the Node_Descriptor_req was queued and not answered for MinMacPollRxOn ms:
\* the timer expired and Init is installed
C6_Witness ==
    /\ state[StateLevel0] = "Init"
    /\ coreNode.ndNull
    /\ zdpResult.isEnqueued
    /\ timer[StateLevel0] = Inactive
    /\ awake = MinMacPollRxOn
    /\ Pending("StateEnter", StateLevel0)

NodeVariants ==
    {[coreNode EXCEPT !.ndNull = nd, !.rxOnWhenIdle = rx] :
        nd \in BOOLEAN, rx \in BOOLEAN}

\* C8: an Awake delivered at level 0 restarts awake before the handler runs,
\* so that Init, having the node, goes on to NodeDescriptor whatever the
\* flags are; as long as less than MinMacPollRxOn ms have passed since,
\* reachable() is true for every Reachable flag, Sleeper flag and node
\* descriptor; an Awake handled at level 1 or 2 leaves awake as it is
C8_AwakeReachable ==
    /\ []((awake # Invalid /\ awake < MinMacPollRxOn)
             => \A cn \in NodeVariants : \A ri \in BOOLEAN : \A sl \in BOOLEAN :
                    reachableWith(Cur, cn, ri, sl))
    /\ [](\A L \in SubLevels :
             LET w == [Cur EXCEPT !.state[STATE_LEVEL_BINDING] = "Binding",
                                  !.state[STATE_LEVEL_POLL] = "PollIdle"]
             IN  handleEvent(w, Ev("Awake", 0), L, NoInput).awake = awake)
    /\ [][Awake => awake' = 0]_vars
    /\ [][(state[StateLevel0] = "Init" /\ coreNode.exists /\ Awake)
             => state'[StateLevel0] = "NodeDescriptor"]_vars

\* TimeStep ms after an Awake the device without a node descriptor, marked as
\* a sleeper and as not reachable, waits for the answer to the request that
\* NodeDescriptor sent because the device is reachable
C8_Witness ==
    /\ awake = TimeStep
    /\ ~reachableItem
    /\ sleeper
    /\ coreNode.ndNull
    /\ state[StateLevel0] = "NodeDescriptor"
    /\ zdpResult.isEnqueued
    /\ timer[StateLevel0] = MinMacPollRxOn - TimeStep

HappyPath ==
    <<"NodeDescriptor", "ActiveEndpoints", "SimpleDescriptor", "BasicCluster",
      "GetDeviceDescription", Ev("DDFInitRequest", 0), Ev("DDFInitResponse", 1),
      "Idle">>

\* C9: the device of scenario S1 eventually has Idle at level 0 for good, and
\* its history is then the verification states in their order, one
\* DDFInitRequest, one DDFInitResponse(1) and Idle; on the way the history is
\* always a prefix of that
C9_HappyPath ==
    /\ <>[](state[StateLevel0] = "Idle" /\ history = HappyPath /\ ~crashed)
    /\ [](/\ Len(history) <= Len(HappyPath)
          /\ history = SubSeq(HappyPath, 1, Len(history)))

\* Idle is installed with its two sub-levels and nothing is left to dispatch
C9_Witness ==
    /\ recording
    /\ state = [i \in Levels |-> CASE i = StateLevel0 -> "Idle"
                                   [] i = STATE_LEVEL_BINDING -> "Binding"
                                   [] i = STATE_LEVEL_POLL -> "PollIdle"]
    /\ history = HappyPath
    /\ mailbox = <<>>

\* C10: in scenario S2 level 0 is always Init or NodeDescriptor; NodeDescriptor
\* with its StateEnter processed has the timer of level 0 running with at most
\* MinMacPollRxOn ms to go and its expiry installs Init; a Poll in Init
\* installs NodeDescriptor, whose StateEnter sends a Node_Descriptor_req; and
\* the cycle repeats for ever: Init, NodeDescriptor and the sending of the
\* request each recur
C10_TimeoutCascade ==
    /\ [](state[StateLevel0] \in {"Init", "NodeDescriptor"} /\ ~crashed)
    /\ []((state[StateLevel0] = "NodeDescriptor"
             /\ ~Pending("StateEnter", StateLevel0))
            => timer[StateLevel0] \in 0 .. MinMacPollRxOn)
    /\ [][(state[StateLevel0] = "NodeDescriptor" /\ TimerFireAt(StateLevel0))
             => state'[StateLevel0] = "Init"]_vars
    /\ [][(state[StateLevel0] = "Init" /\ Poll)
             => state'[StateLevel0] = "NodeDescriptor"]_vars
    /\ [][(/\ state[StateLevel0] = "NodeDescriptor"
           /\ DispatchEnqueued
           /\ Head(mailbox) = Ev("StateEnter", StateLevel0))
             => sent' = <<"NodeDescriptorReq">>]_vars
    /\ []<>(state[StateLevel0] = "Init")
    /\ []<>(state[StateLevel0] = "NodeDescriptor")
    /\ []<>(sent = <<"NodeDescriptorReq">>)

\* the request timed out: Init is installed again, MinMacPollRxOn ms after
\* the Awake that was followed by the request
C10_Witness ==
    /\ ~recording
    /\ ~sleeper
    /\ reachableItem
    /\ state[StateLevel0] = "Init"
    /\ last[StateLevel0] = "StateLeave"
    /\ zdpResult.isEnqueued
    /\ timer[StateLevel0] = Inactive
    /\ awake = MinMacPollRxOn

\* C11 as stated: a device whose node has the network address 0x0000 has
\* only Init or Dead at level 0, goes to Dead when Init handles a StateEnter,
\* stays in Dead, and hands no request to the APS controller
C11_AsStated ==
    /\ [](coreNode.nwk = 0 =>
             state[StateLevel0] \in {"Init", "Dead"} /\ sent = <<>>)
    /\ [][(/\ coreNode.nwk = 0
           /\ state[StateLevel0] = "Init"
           /\ Dispatch
           /\ Head(mailbox) = Ev("StateEnter", StateLevel0))
             => state'[StateLevel0] = "Dead"]_vars
    /\ [][(coreNode.nwk = 0 /\ state[StateLevel0] = "Dead")
             => state'[StateLevel0] = "Dead"]_vars

\* an invocation of PollNext in scenario S4: its StateEnter or a timeout
PollNextInvoked ==
    /\ state[StateLevel0] = "Idle"
    /\ state[STATE_LEVEL_POLL] = "PollNext"
    /\ \/ DispatchRefused /\ Head(mailbox) = Ev("StateEnter", STATE_LEVEL_POLL)
       \/ TimerFireWith(STATE_LEVEL_POLL, Refused)

\* the invocations that find the one item with less than two failed reads
\* count one more and arm the timer of level 2
FailedReadCounted ==
    [][\A r \in 0 .. MaxPollItemRetries - 2 :
          (PollNextInvoked /\ pollItems = <<[item |-> 2, retry |-> r]>>)
              => /\ pollItems' = <<[item |-> 2, retry |-> r + 1]>>
                 /\ state'[STATE_LEVEL_POLL] = "PollNext"
                 /\ timer'[STATE_LEVEL_POLL] = MinMacPollRxOn]_vars

LastRetry == <<[item |-> 2, retry |-> MaxPollItemRetries - 1]>>

\* C12 as stated: the third invocation of PollNext, which finds the item with
\* two failed reads, empties the queue and installs PollIdle
C12_AsStated ==
    [][(PollNextInvoked /\ pollItems = LastRetry)
          => pollItems' = <<>> /\ state'[STATE_LEVEL_POLL] = "PollIdle"]_vars

\* C12: in scenario S4 the first and the second invocation of PollNext count a
\* failed read and arm the timer, the third empties the queue, stays in
\* PollNext and arms the timer once more, and the fourth, finding the queue
\* empty, installs PollIdle and arms no timer; PollNext always leads to
\* PollIdle with an empty queue
C12_RetryCap ==
    /\ FailedReadCounted
    /\ [][(PollNextInvoked /\ pollItems = LastRetry)
             => /\ pollItems' = <<>>
                /\ state'[STATE_LEVEL_POLL] = "PollNext"
                /\ timer'[STATE_LEVEL_POLL] = MinMacPollRxOn]_vars
    /\ [][(PollNextInvoked /\ pollItems = <<>>)
             => /\ pollItems' = <<>>
                /\ state'[STATE_LEVEL_POLL] = "PollIdle"
                /\ timer'[STATE_LEVEL_POLL] = Inactive]_vars
    /\ (state[STATE_LEVEL_POLL] = "PollNext")
          ~> (state[STATE_LEVEL_POLL] = "PollIdle" /\ pollItems = <<>>)

\* the third read was refused: the queue is empty, PollNext waits for the timer
C12_Witness ==
    /\ state[StateLevel0] = "Idle"
    /\ state[STATE_LEVEL_POLL] = "PollNext"
    /\ pollItems = <<>>
    /\ timer[STATE_LEVEL_POLL] = MinMacPollRxOn
    /\ ~readResult.isEnqueued
    /\ reachableItem

----------------------------------------------------------------------------
(* The answers of the DDF engine: a known device and a DDF engine that
   answers 0 (no description), 1 (a description matched) or 2; the device also
   gets answers it did not ask for *)

DDFAnswers == 0 .. 2

InitDDF ==
    /\ DeviceInit
    /\ deviceKey = <<DdeMacPrefix, 1>>
    /\ devices = Registered(deviceKey)
    /\ coreNode = KnownNode(TRUE, 0)
    /\ subItems = [it \in BasicItemNames |-> TRUE]
    /\ reachableItem = TRUE
    /\ sleeper = FALSE
    /\ ddfMatch \in DDFAnswers
    /\ recording = FALSE

DDFInitResponse == \E matched \in DDFAnswers : Deliver(Ev("DDFInitResponse", matched))

NextDDF ==
    \/ Dispatch
    \/ Poll
    \/ Awake
    \/ DDFReload
    \/ DDFInitResponse
    \/ ApsConfirm
    \/ TimerFire
    \/ Tick
    \/ TickLong

SpecDDF == InitDDF /\ [][NextDDF]_vars

\* the step handles a DDFInitResponse with the value matched
HandlesDDFInitResponse(matched) ==
    \/ /\ mailbox # <<>>
       /\ Head(mailbox) = Ev("DDFInitResponse", matched)
       /\ Dispatch
    \/ Deliver(Ev("DDFInitResponse", matched))

\* the events GetDeviceDescription has no branch for
OtherEvents ==
    {Ev(what, num) : what \in {"StateLeave", "StateTimeout", "Poll", "Awake", "DDFReload",
                               "DDFInitRequest", "BindingTable", "StateReachable",
                               "NodeDescriptor", "ActiveEndpoints", "SimpleDescriptor"},
                     num \in Levels}
       \cup {ApsConfirmEvent(id, status) : id \in 0 .. MaxReqId, status \in ApsStatuses}

\* C14: in GetDeviceDescription a DDFInitResponse with matched = 1 installs
\* Idle and one with any other value installs Dead; Idle is installed only by
\* a step that starts in GetDeviceDescription; a step that handles no
\* DDFInitResponse leaves GetDeviceDescription installed, and the handler
\* changes nothing of the device on an event other than StateEnter and
\* DDFInitResponse
C14_GetDeviceDescription ==
    /\ [][\A matched \in DDFAnswers :
            (state[StateLevel0] = "GetDeviceDescription" /\ HandlesDDFInitResponse(matched))
               => state'[StateLevel0] = IF matched = 1 THEN "Idle" ELSE "Dead"]_vars
    /\ [][(state'[StateLevel0] = "Idle" /\ state[StateLevel0] # "Idle")
             => state[StateLevel0] = "GetDeviceDescription"]_vars
    /\ [][(/\ state[StateLevel0] = "GetDeviceDescription"
           /\ \A matched \in DDFAnswers : ~HandlesDDFInitResponse(matched))
             => state' = state]_vars
    /\ [](state[StateLevel0] = "GetDeviceDescription"
            => \A ev \in OtherEvents : \A in \in AllInputs :
                  DEV_GetDeviceDescriptionHandler(Cur, ev, in) = Cur)

\* the DDF engine answered 2 and Dead was installed by GetDeviceDescription
C14_Witness ==
    /\ ddfMatch = 2
    /\ state[StateLevel0] = "Dead"
    /\ last[StateLevel0] = "StateLeave"
    /\ mailbox = <<Ev("StateEnter", StateLevel0)>>

\* the events a device whose level 0 is Dead can be handed
DeadEvents ==
    {Ev(what, StateLevel0) : what \in {"StateEnter", "StateTimeout", "Poll", "Awake",
                                       "DDFReload", "DDFInitRequest", "StateReachable",
                                       "BindingTable"}}
       \cup {Ev("DDFInitResponse", matched) : matched \in DDFAnswers}
       \cup {ApsConfirmEvent(id, status) : id \in 0 .. MaxReqId, status \in ApsStatuses}

\* the mailbox after the step holds no event that the device queued: it is
\* the old one, with or without its first event, or with the answer of the DDF
\* engine in place of the request at its head
NothingEnqueued ==
    \/ mailbox' = mailbox
    \/ mailbox # <<>> /\ mailbox' = Tail(mailbox)
    \/ /\ mailbox # <<>>
       /\ Head(mailbox).what = "DDFInitRequest"
       /\ mailbox' = Append(Tail(mailbox), Ev("DDFInitResponse", ddfMatch))

\* C15: once level 0 is Dead every step leaves the three handlers as they are,
\* Dead with levels 1 and 2 absent, sends no request, starts no timer and
\* queues no event; the Dead handler changes nothing of the device whatever
\* the event
C15_DeadIsTerminal ==
    /\ [][state[StateLevel0] = "Dead"
             => /\ state' = state
                /\ sent' = <<>>
                /\ \A i \in Levels :
                      \/ timer'[i] = Inactive
                      \/ timer[i] # Inactive /\ timer'[i] <= timer[i]
                /\ NothingEnqueued]_vars
    /\ [](state[StateLevel0] = "Dead"
            => /\ state[STATE_LEVEL_BINDING] = NULL
               /\ state[STATE_LEVEL_POLL] = NULL
               /\ \A ev \in DeadEvents : \A in \in AllInputs :
                     /\ DEV_DeadStateHandler(Cur, ev, in) = Cur
                     /\ handleEvent(Cur, ev, StateLevel0, in).state = state)

\* the Dead handler was handed an event after its StateEnter and the device
\* rests Dead
C15_Witness ==
    /\ state[StateLevel0] = "Dead"
    /\ last[StateLevel0] = "Event"
    /\ awake = 0
    /\ mailbox = <<>>

----------------------------------------------------------------------------
(* The device container on its own: devices are created, looked up and
   removed by key *)

unregVars == <<state, timer, awake, binding, pollItems, zdpResult, readResult, node,
               items, mailbox, sent, dropped, deviceKey, coreNode, reachableItem, sleeper,
               subItems, ddfMatch, groups, inGroup, last, recording, history>>

InitRegistry ==
    /\ DeviceInit
    /\ deviceKey = <<DdeMacPrefix, 1>>
    /\ devices = Registered(deviceKey)
    /\ coreNode = UnknownNode(0)
    /\ subItems = [it \in BasicItemNames |-> FALSE]
    /\ reachableItem = FALSE
    /\ sleeper = FALSE
    /\ ddfMatch = 0
    /\ recording = FALSE

\* Q_ASSERT(key != 0) ends a debug build
GetOrCreateDevice(key) ==
    /\ ~crashed
    /\ \/ devices.constructed < MaxDevices
       \/ find_if(devices.devices, key) # Len(devices.devices) + 1
    /\ \E abort \in BOOLEAN :
          IF key = ZeroKey /\ abort
          THEN /\ crashed' = TRUE
               /\ devices' = [devices EXCEPT !.call = [op |-> "getOrCreate", key |-> key]]
          ELSE /\ crashed' = FALSE
               /\ devices' = [DEV_GetOrCreateDevice(devices, key) EXCEPT
                                 !.live = @ \cup {key},
                                 !.call = [op |-> "getOrCreate", key |-> key]]
    /\ UNCHANGED unregVars

GetDevice(key) ==
    /\ ~crashed
    /\ devices' = [DEV_GetDevice(devices, key) EXCEPT !.call = [op |-> "get", key |-> key]]
    /\ UNCHANGED <<unregVars, crashed>>

RemoveDevice(key) ==
    /\ ~crashed
    /\ devices' = [DEV_RemoveDevice(devices, key) EXCEPT
                     !.live = @ \ {key},
                     !.call = [op |-> "remove", key |-> key]]
    /\ UNCHANGED <<unregVars, crashed>>

NextRegistry ==
    \E key \in RegistryKeys :
       \/ GetOrCreateDevice(key)
       \/ GetDevice(key)
       \/ RemoveDevice(key)

SpecRegistry == InitRegistry /\ [][NextRegistry]_vars

\* the ids of the Device objects the container r holds under the key
Held(r, key) == {r.devices[i].id : i \in {j \in 1 .. Len(r.devices) : r.devices[j].key = key}}

\* C16: the container holds at most one Device per key; getOrCreate(key)
\* returns the Device the container held under the key, or else adds exactly
\* one Device, with level 0 in Init, and returns it; get(key) returns the
\* Device of the key if the key was created and not removed since and nullptr
\* if not; remove(key) takes the Device of the key out of the container and
\* no other
C16_Registry ==
    /\ [](/\ \A key \in RegistryKeys : Cardinality(Held(devices, key)) <= 1
          /\ \A key \in RegistryKeys : Held(devices, key) # {} <=> key \in devices.live
          /\ (devices.call.op = "get" /\ devices.call.key \in devices.live)
                => Held(devices, devices.call.key) = {devices.result}
          /\ (devices.call.op = "get" /\ devices.call.key \notin devices.live)
                => devices.result = NoDevice
          /\ (devices.call.op = "getOrCreate" /\ ~crashed)
                => Held(devices, devices.call.key) = {devices.result})
    /\ [][devices'.call.op = "getOrCreate" /\ ~crashed'
             => LET key == devices'.call.key
                IN  IF key \in devices.live
                    THEN /\ devices'.devices = devices.devices
                         /\ Held(devices, key) = {devices'.result}
                    ELSE /\ Len(devices'.devices) = Len(devices.devices) + 1
                         /\ SubSeq(devices'.devices, 1, Len(devices.devices)) = devices.devices
                         /\ \A k \in RegistryKeys : devices'.result \notin Held(devices, k)
                         /\ LET new == devices'.devices[Len(devices'.devices)]
                            IN  /\ new.key = key
                                /\ new.id = devices'.result
                                /\ new.state[StateLevel0] = "Init"]_vars
    /\ [][devices'.call.op = "remove"
             => \A key \in RegistryKeys :
                   Held(devices', key) = IF key = devices'.call.key
                                         THEN {}
                                         ELSE Held(devices, key)]_vars

\* a key was created, removed and created again next to another key, and
\* get returns its second Device
C16_Witness ==
    /\ devices.call = [op |-> "get", key |-> <<DdeMacPrefix, 1>>]
    /\ devices.constructed = 3
    /\ Len(devices.devices) = 2
    /\ devices.result = 3

\* C13: when the timer of level 2 expires in PollBusy, PollNext is installed
\* and the poll queue is what it was; the StateEnter of PollNext, the device
\* being reachable, then calls the read function of the last item of the queue
C13_PollTimeoutKeepsQueue ==
    /\ [][(InPollBusy /\ TimerFireAt(STATE_LEVEL_POLL))
             => /\ state'[STATE_LEVEL_POLL] = "PollNext"
                /\ pollItems' = pollItems]_vars
    /\ [][(/\ state[StateLevel0] = "Idle"
           /\ state[STATE_LEVEL_POLL] = "PollNext"
           /\ pollItems # <<>>
           /\ DA_GetReadFunction(back(pollItems))
           /\ reachable(Cur)
           /\ Dispatch
           /\ Head(mailbox) = Ev("StateEnter", STATE_LEVEL_POLL))
             => sent' = <<"PollRead">>]_vars

\* the read in flight timed out: PollNext is installed with the item of the
\* read still in the queue, no failed read counted
C13_Witness ==
    /\ state[STATE_LEVEL_POLL] = "PollNext"
    /\ last[STATE_LEVEL_POLL] = "StateLeave"
    /\ mailbox = <<Ev("StateEnter", STATE_LEVEL_POLL)>>
    /\ timer[STATE_LEVEL_POLL] = Inactive
    /\ readResult.isEnqueued
    /\ pollItems = <<[item |-> 2, retry |-> 0]>>
    /\ awake = MinMacPollRxOn

----------------------------------------------------------------------------
(* Scenario S5: a reachable device that gets to Idle; every Poll finds one item
   due, which has a read function; the APS controller accepts every request
   and no ApsConfirm ever arrives *)

InitS5 ==
    /\ DeviceInit
    /\ deviceKey = <<DdeMacPrefix, 1>>
    /\ devices = Registered(deviceKey)
    /\ \E n \in 0 .. MaxBindings : coreNode = KnownNode(TRUE, n)
    /\ subItems = [it \in BasicItemNames |-> TRUE]
    /\ reachableItem = TRUE
    /\ sleeper = FALSE
    /\ ddfMatch = 1
    /\ recording = FALSE

\* the handler of ev has its request accepted, if it makes one
Accepted(ev) ==
    IF ev.what \in {"StateEnter", "StateTimeout"}
    THEN {in \in Inputs(ev) : in.enq}
    ELSE {in \in Inputs(ev) : in.due \in {<<>>, SingleItem}}

PollAccepted == DeliverWith(Ev("Poll", 0), {in \in Accepted(Ev("Poll", 0)) : in.due = SingleItem})

DispatchAccepted == mailbox # <<>> /\ DispatchWith(Accepted(Head(mailbox)))

TimerFireAccepted ==
    \E i \in Levels : TimerFireWith(i, Accepted(Ev("StateTimeout", i)))

NextS5 ==
    \/ PollAccepted
    \/ DispatchAccepted
    \/ TimerFireAccepted
    \/ Tick
    \/ TickLong

SpecS5 ==
    /\ InitS5
    /\ [][NextS5]_vars
    /\ WF_vars(DispatchAccepted)
    /\ WF_vars(TimerFireAccepted)
    /\ WF_vars(TickLong)

\* C18 as stated: with timers that fire and a mailbox that is drained, a poll
\* level that left PollIdle with items queued gets back to PollIdle with the
\* queue empty, also when every read is enqueued and never confirmed
C18_AsStated ==
    (state[STATE_LEVEL_POLL] \in {"PollNext", "PollBusy"} /\ pollItems # <<>>)
        ~> (state[STATE_LEVEL_POLL] = "PollIdle" /\ pollItems = <<>>)

\* no handler is installed at levels 1 and 2 and level 0 is in Init
Cleared ==
    [i \in Levels |-> IF i = StateLevel0 THEN "Init" ELSE NULL]

\* C19: a DDFReload handled in Idle installs Init at level 0 and removes the
\* handlers of levels 1 and 2, each of which was called with StateLeave, and
\* the timer of level 2 is stopped; while level 0 is not Idle levels 1 and 2
\* have no handler and no running level-2 timer, and no step that starts
\* outside Idle calls a handler of level 1 or 2
C19_ReloadClearsSubMachines ==
    /\ [][(state[StateLevel0] = "Idle" /\ DDFReload)
             => /\ state' = Cleared
                /\ timer'[STATE_LEVEL_POLL] = Inactive
                /\ \A level \in SubLevels :
                      last'[level] = IF state[level] # NULL THEN "StateLeave"
                                                          ELSE last[level]]_vars
    /\ [](state[StateLevel0] # "Idle"
            => /\ \A level \in SubLevels : state[level] = NULL
               /\ timer[STATE_LEVEL_POLL] = Inactive)
    /\ [][state[StateLevel0] # "Idle"
             => \A level \in SubLevels : last'[level] = last[level]]_vars

\* Idle was left on a DDFReload while a read was in flight: Init is to be
\* entered, both sub-machines got their StateLeave and are gone
C19_Witness ==
    /\ state = Cleared
    /\ \A level \in SubLevels : last[level] = "StateLeave"
    /\ mailbox = <<Ev("StateEnter", StateLevel0)>>
    /\ timer[STATE_LEVEL_POLL] = Inactive
    /\ readResult.isEnqueued
    /\ pollItems # <<>>

\* C20: when PollNext is called with StateEnter or StateTimeout and the device
\* is not reachable, the queue is emptied, nothing is sent, the timer of
\* level 2 is not running afterwards and PollIdle is installed
C20_UnreachableDropsQueue ==
    [][(/\ state[StateLevel0] = "Idle"
        /\ state[STATE_LEVEL_POLL] = "PollNext"
        /\ ~reachable(Cur)
        /\ \/ mailbox # <<>> /\ Head(mailbox) = Ev("StateEnter", STATE_LEVEL_POLL) /\ Dispatch
           \/ TimerFireAt(STATE_LEVEL_POLL))
          => /\ pollItems' = <<>>
             /\ sent' = <<>>
             /\ timer'[STATE_LEVEL_POLL] = Inactive
             /\ state'[STATE_LEVEL_POLL] = "PollIdle"]_vars

\* PollNext gave up on a device that is not reachable: PollIdle is to be
\* entered with the queue empty, the item of the last read never retried
C20_Witness ==
    /\ ~reachable(Cur)
    /\ state[STATE_LEVEL_POLL] = "PollIdle"
    /\ last[STATE_LEVEL_POLL] = "StateLeave"
    /\ mailbox = <<Ev("StateEnter", STATE_LEVEL_POLL)>>
    /\ pollItems = <<>>
    /\ dropped > 0
    /\ timer[STATE_LEVEL_POLL] = Inactive
    /\ readResult.isEnqueued

\* C17 as stated: a read that PollNext could not enqueue and a timeout of
\* level 2 in PollBusy both count one more failed read for the last item of
\* the queue, which is removed when the count reaches MaxPollItemRetries, the
\* items before it staying queued
C17_AsStated ==
    /\ [][(/\ state[StateLevel0] = "Idle"
           /\ state[STATE_LEVEL_POLL] = "PollNext"
           /\ reachable(Cur)
           /\ pollItems # <<>>
           /\ DA_GetReadFunction(back(pollItems))
           /\ \/ Dispatch /\ Head(mailbox) = Ev("StateEnter", STATE_LEVEL_POLL)
              \/ TimerFireAt(STATE_LEVEL_POLL)
           /\ sent' = <<>>)
             => IF back(pollItems).retry + 1 >= MaxPollItemRetries
                THEN Len(pollItems') < Len(pollItems)
                ELSE pollItems' = PollItemRetry(pollItems)]_vars
    /\ [][(InPollBusy /\ pollItems # <<>> /\ TimerFireAt(STATE_LEVEL_POLL))
             => pollItems' = PollItemRetry(pollItems)]_vars

----------------------------------------------------------------------------
(* The Basic cluster pass: a node whose descriptors are known, with or without
   a Basic server cluster, whose sub-devices carry both, one or none of the
   two items; the DDF engine finds no description *)

InitBasic ==
    /\ DeviceInit
    /\ deviceKey = <<DdeMacPrefix, 1>>
    /\ devices = Registered(deviceKey)
    /\ \E basic \in BOOLEAN :
          coreNode = [KnownNode(TRUE, 0) EXCEPT !.basicCluster = basic]
    /\ subItems \in [BasicItemNames -> BOOLEAN]
    /\ reachableItem \in BOOLEAN
    /\ sleeper = FALSE
    /\ ddfMatch = 0
    /\ recording = FALSE

NextBasic ==
    \/ Dispatch
    \/ Poll
    \/ Awake
    \/ ApsConfirm
    \/ AttrChanged
    \/ TimerFire
    \/ Tick
    \/ ItemSet
    \/ ReachableSet

SpecBasic == InitBasic /\ [][NextBasic]_vars

\* the item is set or a sub-device carries it
Populated(it) == items[it] \/ subItems[it]

\* the StateEnter of BasicCluster is handled
BasicClusterPass ==
    /\ state[StateLevel0] = "BasicCluster"
    /\ mailbox # <<>>
    /\ Head(mailbox) = Ev("StateEnter", StateLevel0)
    /\ Dispatch

\* the pass stops at the item it: nothing after it is copied from a sub-device,
\* one read is sent if the device is reachable and has the cluster, and the
\* device waits in BasicCluster with the timer of level 0 armed if the read
\* was enqueued and is back in Init if not
StopsAt(i) ==
    /\ \A j \in i .. Len(BasicItems) : items'[BasicItems[j]] = items[BasicItems[j]]
    /\ IF reachable(Cur) /\ DEV_GetSimpleDescriptorForServerCluster
       THEN /\ sent' = <<"ZclRead">>
            /\ IF readResult'.isEnqueued
               THEN /\ state'[StateLevel0] = "BasicCluster"
                    /\ timer'[StateLevel0] = MinMacPollRxOn
               ELSE state'[StateLevel0] = "Init"
       ELSE /\ sent' = <<>>
            /\ readResult' = readResult
            /\ state'[StateLevel0] = "Init"

\* C23: GetDeviceDescription is installed only by a step that starts in
\* BasicCluster and leaves both ManufacturerName and ModelId set; a pass over
\* the items stops at the first one that is neither set nor carried by a
\* sub-device: the items after it are not attempted, an enqueued read arms
\* the timer of level 0 and keeps BasicCluster, anything else installs Init
C23_BasicClusterPass ==
    /\ [][(state'[StateLevel0] = "GetDeviceDescription"
            /\ state[StateLevel0] # "GetDeviceDescription")
             => /\ state[StateLevel0] = "BasicCluster"
                /\ \A it \in BasicItemNames : items'[it]]_vars
    /\ [][BasicClusterPass
             => IF \A it \in BasicItemNames : Populated(it)
                THEN state'[StateLevel0] = "GetDeviceDescription"
                ELSE \E i \in 1 .. Len(BasicItems) :
                        /\ ~Populated(BasicItems[i])
                        /\ \A j \in 1 .. i - 1 : Populated(BasicItems[j])
                        /\ StopsAt(i)]_vars

\* a pass stopped at ManufacturerName without a read enqueued: Init is to be
\* entered and ModelId, which a sub-device carries, was not copied
C23_Witness ==
    /\ state[StateLevel0] = "Init"
    /\ last[StateLevel0] = "StateLeave"
    /\ mailbox = <<Ev("StateEnter", StateLevel0)>>
    /\ ~items["ManufacturerName"] /\ ~subItems["ManufacturerName"]
    /\ ~items["ModelId"] /\ subItems["ModelId"]
    /\ readResult = NoResult
    /\ timer[StateLevel0] = Inactive

----------------------------------------------------------------------------
(* Binding verification: a device that gets to Idle and stays there, with a
   binding table of 0 .. MaxBindings entries; nothing is due for polling; the
   mailbox is drained *)

InitBinding ==
    /\ DeviceInit
    /\ deviceKey = <<DdeMacPrefix, 1>>
    /\ devices = Registered(deviceKey)
    /\ \E n \in 0 .. MaxBindings : coreNode = KnownNode(TRUE, n)
    /\ subItems = [it \in BasicItemNames |-> TRUE]
    /\ reachableItem = TRUE
    /\ sleeper = FALSE
    /\ ddfMatch = 1
    /\ recording = FALSE

PollNothingDue == DeliverWith(Ev("Poll", 0), {in \in AllInputs : in.due = <<>>})

NextBinding ==
    \/ Dispatch
    \/ PollNothingDue
    \/ Awake
    \/ BindingTable
    \/ TickLong

\* the queued event is handled; no handler of this scenario calls the APS
\* controller or fails an assertion, so what these would yield is left open
DispatchQuiet == DispatchWith({NoInput})

SpecBinding == InitBinding /\ [][NextBinding]_vars /\ WF_vars(DispatchQuiet)

InVerify == state[STATE_LEVEL_BINDING] = "BindingTableVerify"

\* C24: BindingTableVerify is entered with bindingIter = 0 and one BindingTick
\* queued; a BindingTick handled there with bindingIter below the size of the
\* binding table raises bindingIter by one and queues one BindingTick, one
\* handled with bindingIter at the size restarts bindingVerify and installs
\* Binding; bindingIter never exceeds the size, and Binding is installed in
\* the end
C24_BindingVerification ==
    /\ [](InVerify => /\ binding.bindingIter <= coreNode.bindingTable
                      /\ Count(mailbox, "BindingTick") = 1)
    /\ [][(InVerify' /\ ~InVerify) => binding'.bindingIter = 0]_vars
    /\ [][(/\ InVerify
           /\ mailbox # <<>>
           /\ Head(mailbox).what = "BindingTick"
           /\ Dispatch)
             => IF binding.bindingIter < coreNode.bindingTable
                THEN /\ binding' = [binding EXCEPT !.bindingIter = @ + 1]
                     /\ InVerify'
                     /\ mailbox' = Append(Tail(mailbox), Ev("BindingTick", 0))
                ELSE /\ binding' = [binding EXCEPT !.bindingVerify = 0]
                     /\ state'[STATE_LEVEL_BINDING] = "Binding"
                     /\ Count(mailbox', "BindingTick") = 0]_vars
    /\ InVerify ~> (state[STATE_LEVEL_BINDING] = "Binding")

\* every binding of the table was looked at and Binding is installed again
C24_Witness ==
    /\ coreNode.bindingTable = MaxBindings
    /\ state[STATE_LEVEL_BINDING] = "Binding"
    /\ last[STATE_LEVEL_BINDING] = "StateLeave"
    /\ binding.bindingIter = MaxBindings
    /\ binding.bindingVerify = 0
    /\ Pending("StateEnter", STATE_LEVEL_BINDING)

----------------------------------------------------------------------------
(* Devices the core has no node for: Green Power devices, whose key has the
   upper 32 bits zero, and a device of another kind *)

NoNode == [UnknownNode(0) EXCEPT !.exists = FALSE]

NodelessKeys == {<<0, 1>>, <<0, 2>>, <<1412352, 2>>}

InitNodeless ==
    /\ DeviceInit
    /\ deviceKey \in NodelessKeys
    /\ devices = Registered(deviceKey)
    /\ coreNode = NoNode
    /\ subItems = [it \in BasicItemNames |-> FALSE]
    /\ reachableItem \in BOOLEAN
    /\ sleeper \in BOOLEAN
    /\ ddfMatch = 0
    /\ recording = FALSE

NextNodeless ==
    \/ Dispatch
    \/ Poll
    \/ Awake
    \/ ReachableChanged
    \/ DDFReload
    \/ ApsConfirm
    \/ Tick
    \/ ReachableSet

SpecNodeless == InitNodeless /\ [][NextNodeless]_vars

\* C25 as stated: Init called with StateEnter for a device without a node
\* whose key has the upper 32 bits zero installs Dead, and Dead is installed
\* for such a device by no other step than the one that handles that StateEnter
C25_AsStated ==
    /\ []((IsZgpKey(deviceKey) /\ ~DEV_GetCoreNode /\ state[StateLevel0] = "Init")
            => \A in \in Inputs(Ev("StateEnter", StateLevel0)) :
                  DEV_InitStateHandler(Cur, Ev("StateEnter", StateLevel0), in)
                      .state[StateLevel0] = "Dead")
    /\ [][(/\ IsZgpKey(deviceKey)
           /\ state[StateLevel0] = "Init"
           /\ state'[StateLevel0] = "Dead")
             => /\ mailbox # <<>>
                /\ Head(mailbox) = Ev("StateEnter", StateLevel0)
                /\ Dispatch]_vars

----------------------------------------------------------------------------
(* From the Basic cluster reads to polling: a reachable device with a known
   node whose Basic cluster items are not set and that no sub-device carries;
   the items are read, a description matches and the device is polled *)

InitRead ==
    /\ DeviceInit
    /\ deviceKey = <<DdeMacPrefix, 1>>
    /\ devices = Registered(deviceKey)
    /\ coreNode = KnownNode(TRUE, 0)
    /\ subItems = [it \in BasicItemNames |-> FALSE]
    /\ reachableItem = TRUE
    /\ sleeper = FALSE
    /\ ddfMatch = 1
    /\ recording = FALSE

NextRead ==
    \/ Dispatch
    \/ Poll
    \/ ApsConfirm
    \/ TimerFire
    \/ Tick
    \/ ItemSet

SpecRead == InitRead /\ [][NextRead]_vars

\* C27 as stated: the timer of level 0 does not reach the poll handlers: when
\* it expires while PollNext or PollBusy is installed, the poll level, its
\* queue and its timer stay as they are and no assertion fails
C27_AsStated ==
    [][(/\ state[StateLevel0] = "Idle"
        /\ state[STATE_LEVEL_POLL] \in {"PollNext", "PollBusy"}
        /\ TimerFireAt(StateLevel0))
          => /\ state'[STATE_LEVEL_POLL] = state[STATE_LEVEL_POLL]
             /\ pollItems' = pollItems
             /\ timer'[STATE_LEVEL_POLL] = timer[STATE_LEVEL_POLL]
             /\ ~crashed']_vars

\* a step after which the queue holds an item it did not hold at that place
QueueReplaced ==
    \E i \in 1 .. Len(pollItems') :
        i > Len(pollItems) \/ pollItems'[i].item # pollItems[i].item

\* C28: while the handler of level 2 is PollBusy the poll queue is not empty;
\* a Poll delivered while the handler of level 2 is PollNext or PollBusy leaves
\* the queue as it is; and only the Poll handled in PollIdle puts items into
\* the queue
C28_PollBusyQueue ==
    /\ [](state[STATE_LEVEL_POLL] = "PollBusy" => pollItems # <<>>)
    /\ [][(state[STATE_LEVEL_POLL] \in {"PollNext", "PollBusy"} /\ Poll)
            => pollItems' = pollItems]_vars
    /\ [][QueueReplaced => (state[STATE_LEVEL_POLL] = "PollIdle" /\ Poll)]_vars

\* PollBusy was called with an event other than StateEnter and StateLeave,
\* stays installed while the read is awaited, and the queue holds the item
C28_Witness ==
    /\ state[StateLevel0] = "Idle"
    /\ state[STATE_LEVEL_POLL] = "PollBusy"
    /\ last[STATE_LEVEL_POLL] = "Event"
    /\ timer[STATE_LEVEL_POLL] # Inactive
    /\ pollItems # <<>>
    /\ DA_GetReadFunction(back(pollItems))
    /\ ~crashed

\* PollNext is called with StateEnter or StateTimeout for a reachable device
\* and a queue that is not empty
PollNextReads ==
    /\ state[StateLevel0] = "Idle"
    /\ state[STATE_LEVEL_POLL] = "PollNext"
    /\ reachable(Cur)
    /\ pollItems # <<>>
    /\ \/ mailbox # <<>> /\ Head(mailbox) = Ev("StateEnter", STATE_LEVEL_POLL) /\ Dispatch
       \/ TimerFireAt(STATE_LEVEL_POLL)

\* C21 as stated: when PollNext finds no read function for the last item of
\* the queue, the step removes that item and no other, keeps the retry counts
\* of the others, stays in PollNext and does not end the process
C21_AsStated ==
    [][(PollNextReads /\ ~DA_GetReadFunction(back(pollItems)))
          => /\ pollItems' = pop_back(pollItems)
             /\ state'[STATE_LEVEL_POLL] = "PollNext"
             /\ ~crashed']_vars

\* C22 as stated: the timer of level 0, which only the verification states
\* arm, is not running once level 0 is in another state, and it never
\* expires there
C22_AsStated ==
    /\ [](state[StateLevel0] \notin VerificationStates
            => timer[StateLevel0] = Inactive)
    /\ [][TimerFireAt(StateLevel0) => state[StateLevel0] \in VerificationStates]_vars

\* C26 as stated: a StateEnter or StateLeave taken from the mailbox finds a
\* handler installed at the level it names, and a timer that expires finds a
\* handler installed at its level
C26_AsStated ==
    /\ [][(/\ mailbox # <<>>
           /\ Head(mailbox).what \in {"StateEnter", "StateLeave"}
           /\ Dispatch)
             => state[Head(mailbox).num] # NULL]_vars
    /\ [][\A i \in Levels : TimerFireAt(i) => state[i] # NULL]_vars

====
